---- MODULE Spec2Model ----
(***************************************************************************)
(* AtomDB (src/atomdb/api.py): the species record and its MessagePack      *)
(* codec, the key-to-path scheme, the element table, the load/compile      *)
(* store and the error outcomes of the spline methods.                     *)
(*                                                                         *)
(* Python values are tagged records [t, v].  A str is the sequence of its  *)
(* character codes, bytes a sequence of 0..255, a float its IEEE-754       *)
(* pattern as 8 bytes in memory (little-endian) order, an ndarray a        *)
(* sequence of such floats, a dict a sequence of <<key, value>> pairs in   *)
(* insertion order.  A raised exception is the value [t |-> "raise"].      *)
(***************************************************************************)
EXTENDS Integers, Sequences, FiniteSets, TLC

VARIABLES
    dirs,      \* store: the directories that exist (set of paths)
    files,     \* store: path -> content (bytes) of every file that exists
    pc,        \* store: each caller's position inside load / compile
    call,      \* store: each caller's arguments (elem, charge, mult, nexc, dataset, datapath)
    rec,       \* store: the Species held by the caller (generated or loaded), or an exception
    last,      \* store: path -> the Species most recently written there (history)
    cin,       \* codec: the Species handed to the codec
    cout,      \* codec: what decoding its encoding gave
    pk,        \* path: the two keys resolved
    pp,        \* path: their two paths
    ein,       \* element table: the argument
    eout,      \* element table: <<element_symbol(ein), element_number(ein)>>
    sarg,      \* spline: the call (family, spin, index, log)
    sout       \* spline: its outcome

vars == <<dirs, files, pc, call, rec, last, cin, cout, pk, pp, ein, eout, sarg, sout>>

storeVars  == <<dirs, files, pc, call, rec, last>>
codecVars  == <<cin, cout>>
pathVars   == <<pk, pp>>
elemVars   == <<ein, eout>>
splineVars == <<sarg, sout>>

-----------------------------------------------------------------------------
(* Python values *)

PyNone      == [t |-> "None",    v |-> 0]
PyStr(s)    == [t |-> "str",     v |-> s]
PyInt(n)    == [t |-> "int",     v |-> n]
PyFloat(b)  == [t |-> "float",   v |-> b]
PyBytes(b)  == [t |-> "bytes",   v |-> b]
PyArray(a)  == [t |-> "ndarray", v |-> a]
PyDict(d)   == [t |-> "dict",    v |-> d]
Raise(e)    == [t |-> "raise",   v |-> e]

isinstance(x, type) == x.t = type
Raised(x)           == x.t = "raise"

-----------------------------------------------------------------------------
(* The element table *)

ELEMENTS == <<
    <<0>>, <<72>>, <<72, 101>>, <<76, 105>>, <<66, 101>>, <<66>>,   \* \x00 H He Li Be B
    <<67>>, <<78>>, <<79>>, <<70>>, <<78, 101>>, <<78, 97>>,   \* C N O F Ne Na
    <<77, 103>>, <<65, 108>>, <<83, 105>>, <<80>>, <<83>>, <<67, 108>>,   \* Mg Al Si P S Cl
    <<65, 114>>, <<75>>, <<67, 97>>, <<83, 99>>, <<84, 105>>, <<86>>,   \* Ar K Ca Sc Ti V
    <<67, 114>>, <<77, 110>>, <<70, 101>>, <<67, 111>>, <<78, 105>>, <<67, 117>>,   \* Cr Mn Fe Co Ni Cu
    <<90, 110>>, <<71, 97>>, <<71, 101>>, <<65, 115>>, <<83, 101>>, <<66, 114>>,   \* Zn Ga Ge As Se Br
    <<75, 114>>, <<82, 98>>, <<83, 114>>, <<89>>, <<90, 114>>, <<78, 98>>,   \* Kr Rb Sr Y Zr Nb
    <<77, 111>>, <<84, 99>>, <<82, 117>>, <<82, 104>>, <<80, 100>>, <<65, 103>>,   \* Mo Tc Ru Rh Pd Ag
    <<67, 100>>, <<73, 110>>, <<83, 110>>, <<83, 98>>, <<84, 101>>, <<73>>,   \* Cd In Sn Sb Te I
    <<88, 101>>, <<67, 115>>, <<66, 97>>, <<76, 97>>, <<67, 101>>, <<80, 114>>,   \* Xe Cs Ba La Ce Pr
    <<78, 100>>, <<80, 109>>, <<83, 109>>, <<69, 117>>, <<71, 100>>, <<84, 98>>,   \* Nd Pm Sm Eu Gd Tb
    <<68, 121>>, <<72, 111>>, <<69, 114>>, <<84, 109>>, <<89, 98>>, <<76, 117>>,   \* Dy Ho Er Tm Yb Lu
    <<72, 102>>, <<84, 97>>, <<87>>, <<82, 101>>, <<79, 115>>, <<73, 114>>,   \* Hf Ta W Re Os Ir
    <<80, 116>>, <<65, 117>>, <<72, 103>>, <<84, 108>>, <<80, 98>>, <<66, 105>>,   \* Pt Au Hg Tl Pb Bi
    <<80, 111>>, <<65, 116>>, <<82, 110>>, <<70, 114>>, <<82, 97>>, <<65, 99>>,   \* Po At Rn Fr Ra Ac
    <<84, 104>>, <<80, 97>>, <<85>>, <<78, 112>>, <<80, 117>>, <<65, 109>>,   \* Th Pa U Np Pu Am
    <<67, 109>>, <<66, 107>>, <<67, 102>>, <<69, 115>>, <<70, 109>>, <<77, 100>>,   \* Cm Bk Cf Es Fm Md
    <<78, 111>>, <<76, 114>>, <<82, 102>>, <<68, 98>>, <<83, 103>>, <<66, 104>>,   \* No Lr Rf Db Sg Bh
    <<72, 115>>, <<77, 116>>, <<68, 115>>, <<82, 103>>, <<67, 110>>, <<78, 104>>,   \* Hs Mt Ds Rg Cn Nh
    <<70, 108>>, <<77, 99>>, <<76, 118>>, <<84, 115>>, <<79, 103>>   \* Fl Mc Lv Ts Og
>>

\* tuple.index: the first position (from 0) holding s, ValueError when none does
TupleIndex(tuple, s) ==
    IF \E i \in 1..Len(tuple) : tuple[i] = s
    THEN PyInt((CHOOSE i \in 1..Len(tuple) :
                   tuple[i] = s /\ \A j \in 1..(i - 1) : tuple[j] # s) - 1)
    ELSE Raise("ValueError")

\* tuple[i]: Python indexing, where a negative i counts from the end
TupleGetItem(tuple, i) ==
    IF 0 <= i /\ i < Len(tuple) THEN PyStr(tuple[i + 1])
    ELSE IF -Len(tuple) <= i /\ i < 0 THEN PyStr(tuple[Len(tuple) + i + 1])
    ELSE Raise("IndexError")

element_number(elem) ==
    IF isinstance(elem, "str") THEN TupleIndex(ELEMENTS, elem.v) ELSE elem

element_symbol(elem) ==
    IF isinstance(elem, "str") THEN elem ELSE TupleGetItem(ELEMENTS, elem.v)

-----------------------------------------------------------------------------
(* Strings and paths *)

RECURSIVE Digits(_)
Digits(n) == IF n < 10 THEN <<48 + n>> ELSE Digits(n \div 10) \o <<48 + (n % 10)>>

\* str(n) of an int: decimal digits, "-" first when negative
IntStr(n) == IF n < 0 THEN <<45>> \o Digits(-n) ELSE Digits(n)

\* "{x}" inside an f-string
Format(x) == IF isinstance(x, "str") THEN x.v ELSE IntStr(x.v)

LowerChar(c) == IF 65 <= c /\ c <= 90 THEN c + 32 ELSE c
lower(s)     == [i \in 1..Len(s) |-> LowerChar(s[i])]

\* os.path.join of two components
join(a, b) ==
    IF Len(b) > 0 /\ b[1] = 47 THEN b
    ELSE IF Len(a) = 0 \/ a[Len(a)] = 47 THEN a \o b
    ELSE a \o <<47>> \o b

\* os.path.dirname: everything before the last "/"
dirname(p) ==
    IF \E i \in 1..Len(p) : p[i] = 47
    THEN SubSeq(p, 1, (CHOOSE i \in 1..Len(p) :
                          p[i] = 47 /\ \A j \in (i + 1)..Len(p) : p[j] # 47) - 1)
    ELSE <<>>

\* os.makedirs(p, exist_ok=True): p and every ancestor of p
Ancestors(p) ==
    { SubSeq(p, 1, i) : i \in { j \in 1..Len(p) :
          p[j] # 47 /\ (j = Len(p) \/ p[j + 1] = 47) } }

S_db   == <<47, 100, 98>>         \* "/db"
S_raw  == <<47, 114, 97, 119>>    \* "/raw"
S_us   == <<95>>                  \* "_"
S_msg  == <<46, 109, 115, 103>>   \* ".msg"

\* the file name without the excitation index
Species_msgfile_nonexc(elem, charge, mult, nexc, dataset, datapath) ==
    join(datapath,
         lower(dataset) \o S_db \o <<47>> \o Format(elem) \o S_us \o Format(charge)
           \o S_us \o Format(mult) \o S_msg)

\* Species._msgfile
Species_msgfile(elem, charge, mult, nexc, dataset, datapath) ==
    join(datapath,
         lower(dataset) \o S_db \o <<47>> \o Format(elem) \o S_us \o Format(charge)
           \o S_us \o Format(mult) \o S_us \o Format(nexc) \o S_msg)

-----------------------------------------------------------------------------
(* The species record *)

\* SpeciesData: the dataclass fields in declaration order, with the str each
\* is keyed by in asdict() and in the MessagePack map
FIELDS == <<
    [name |-> "dataset", key |-> <<100, 97, 116, 97, 115, 101, 116>>],
    [name |-> "elem", key |-> <<101, 108, 101, 109>>],
    [name |-> "natom", key |-> <<110, 97, 116, 111, 109>>],
    [name |-> "basis", key |-> <<98, 97, 115, 105, 115>>],
    [name |-> "nelec", key |-> <<110, 101, 108, 101, 99>>],
    [name |-> "nspin", key |-> <<110, 115, 112, 105, 110>>],
    [name |-> "nexc", key |-> <<110, 101, 120, 99>>],
    [name |-> "cov_radii", key |-> <<99, 111, 118, 95, 114, 97, 100, 105, 105>>],
    [name |-> "vdw_radii", key |-> <<118, 100, 119, 95, 114, 97, 100, 105, 105>>],
    [name |-> "mass", key |-> <<109, 97, 115, 115>>],
    [name |-> "energy", key |-> <<101, 110, 101, 114, 103, 121>>],
    [name |-> "mo_energies", key |-> <<109, 111, 95, 101, 110, 101, 114, 103, 105, 101, 115>>],
    [name |-> "mo_occs", key |-> <<109, 111, 95, 111, 99, 99, 115>>],
    [name |-> "ip", key |-> <<105, 112>>],
    [name |-> "mu", key |-> <<109, 117>>],
    [name |-> "eta", key |-> <<101, 116, 97>>],
    [name |-> "rs", key |-> <<114, 115>>],
    [name |-> "dens_up", key |-> <<100, 101, 110, 115, 95, 117, 112>>],
    [name |-> "dens_dn", key |-> <<100, 101, 110, 115, 95, 100, 110>>],
    [name |-> "dens_tot", key |-> <<100, 101, 110, 115, 95, 116, 111, 116>>],
    [name |-> "dens_mag", key |-> <<100, 101, 110, 115, 95, 109, 97, 103>>],
    [name |-> "d_dens_up", key |-> <<100, 95, 100, 101, 110, 115, 95, 117, 112>>],
    [name |-> "d_dens_dn", key |-> <<100, 95, 100, 101, 110, 115, 95, 100, 110>>],
    [name |-> "d_dens_tot", key |-> <<100, 95, 100, 101, 110, 115, 95, 116, 111, 116>>],
    [name |-> "d_dens_mag", key |-> <<100, 95, 100, 101, 110, 115, 95, 109, 97, 103>>],
    [name |-> "lapl_up", key |-> <<108, 97, 112, 108, 95, 117, 112>>],
    [name |-> "lapl_dn", key |-> <<108, 97, 112, 108, 95, 100, 110>>],
    [name |-> "lapl_tot", key |-> <<108, 97, 112, 108, 95, 116, 111, 116>>],
    [name |-> "lapl_mag", key |-> <<108, 97, 112, 108, 95, 109, 97, 103>>],
    [name |-> "ked_up", key |-> <<107, 101, 100, 95, 117, 112>>],
    [name |-> "ked_dn", key |-> <<107, 101, 100, 95, 100, 110>>],
    [name |-> "ked_tot", key |-> <<107, 101, 100, 95, 116, 111, 116>>],
    [name |-> "ked_mag", key |-> <<107, 101, 100, 95, 109, 97, 103>>]
>>

NFIELDS   == Len(FIELDS)
NREQUIRED == Cardinality({ i \in 1..Len(FIELDS) : FIELDS[i].name \in
                 {"dataset", "elem", "natom", "basis", "nelec", "nspin", "nexc",
                  "cov_radii", "vdw_radii", "mass"} })

FieldNames == { FIELDS[i].name : i \in 1..NFIELDS }

\* dict lookup: d[k] when a pair of d has key k
DictHas(d, k) == \E i \in 1..Len(d) : d[i][1] = k
DictGet(d, k) == d[CHOOSE i \in 1..Len(d) : d[i][1] = k][2]

\* Species.__init__(**kw): SpeciesData.__init__ binds the keywords to the
\* fields (a missing required field or an unknown keyword is a TypeError,
\* an optional field defaults to None), then charge and mult are derived
Species(kw) ==
    IF \E i \in 1..Len(kw) : \A j \in 1..NFIELDS : FIELDS[j].key # kw[i][1]
        THEN Raise("TypeError")
    ELSE IF \E j \in 1..NREQUIRED : ~DictHas(kw, FIELDS[j].key)
        THEN Raise("TypeError")
    ELSE LET data == [n \in FieldNames |->
                         LET j == CHOOSE j \in 1..NFIELDS : FIELDS[j].name = n
                         IN  IF DictHas(kw, FIELDS[j].key)
                             THEN DictGet(kw, FIELDS[j].key) ELSE PyNone]
         IN  [t      |-> "Species",
              v      |-> data,
              charge |-> PyInt(data["natom"].v - data["nelec"].v),
              mult   |-> PyInt(data["nspin"].v + 1)]

\* dataclasses.asdict(species): the dataclass fields only, in declaration order
asdict(self) == [j \in 1..NFIELDS |-> <<FIELDS[j].key, self.v[FIELDS[j].name]>>]

-----------------------------------------------------------------------------
(* ndarray <-> bytes *)

RECURSIVE Flatten(_)
Flatten(a) == IF Len(a) = 0 THEN <<>> ELSE a[1] \o Flatten(Tail(a))

\* _array_to_bytes: the array's buffer, 8 bytes per element
array_to_bytes(array) == PyBytes(Flatten(array.v))

\* numpy.frombuffer(b): the buffer read as float64, ValueError when its size
\* is not a multiple of the element size
frombuffer(b) ==
    IF Len(b.v) % 8 # 0 THEN Raise("ValueError")
    ELSE PyArray([k \in 1..(Len(b.v) \div 8) |-> SubSeq(b.v, 8 * k - 7, 8 * k)])

-----------------------------------------------------------------------------
(* MessagePack *)

Reverse(s) == [i \in 1..Len(s) |-> s[Len(s) + 1 - i]]

Hi(n)  == (n \div 256) % 256
Lo(n)  == n % 256
BE16(n) == <<Hi(n), Lo(n)>>
BE32(n) == <<(n \div 16777216) % 256, (n \div 65536) % 256, Hi(n), Lo(n)>>

PackInt(n) ==
    IF      0 <= n /\ n <= 127        THEN <<n>>
    ELSE IF -32 <= n /\ n < 0         THEN <<256 + n>>
    ELSE IF 128 <= n /\ n <= 255      THEN <<204, n>>
    ELSE IF 256 <= n /\ n <= 65535    THEN <<205>> \o BE16(n)
    ELSE IF 65536 <= n                THEN <<206>> \o BE32(n)
    ELSE IF -128 <= n                 THEN <<208, 256 + n>>
    ELSE IF -32768 <= n               THEN <<209>> \o BE16(65536 + n)
    ELSE LET m == (n + 2147483647) + 1
         IN  <<210, 128 + (m \div 16777216), (m \div 65536) % 256, Hi(m), Lo(m)>>

PackStrHeader(len) ==
    IF      len <= 31  THEN <<160 + len>>
    ELSE IF len <= 255 THEN <<217, len>>
    ELSE                    <<218>> \o BE16(len)

PackBinHeader(len) ==
    IF len <= 255 THEN <<196, len>> ELSE <<197>> \o BE16(len)

PackMapHeader(n) ==
    IF n <= 15 THEN <<128 + n>> ELSE <<222>> \o BE16(n)

\* the old raw type, which use_bin_type=False writes bytes as
PackRawHeader(len) ==
    IF len <= 31 THEN <<160 + len>> ELSE <<218>> \o BE16(len)

\* Packer(use_bin_type).pack: with use_bin_type bytes go out as the bin type,
\* told apart from str; without it they go out as the raw (str) type
RECURSIVE Pack(_, _)
RECURSIVE PackPairs(_, _)
Pack(x, use_bin_type) ==
    CASE x.t = "None"  -> <<192>>
      [] x.t = "int"   -> PackInt(x.v)
      [] x.t = "float" -> <<203>> \o Reverse(x.v)
      [] x.t = "str"   -> PackStrHeader(Len(x.v)) \o x.v
      [] x.t = "bytes" -> (IF use_bin_type THEN PackBinHeader(Len(x.v))
                           ELSE PackRawHeader(Len(x.v))) \o x.v
      [] x.t = "dict"  -> PackMapHeader(Len(x.v)) \o PackPairs(x.v, use_bin_type)
PackPairs(d, use_bin_type) ==
    IF Len(d) = 0 THEN <<>>
    ELSE Pack(PyStr(d[1][1]), use_bin_type) \o Pack(d[1][2], use_bin_type)
           \o PackPairs(Tail(d), use_bin_type)

pack_msg_raw(msg) == Pack(msg, FALSE)

pack_msg(msg) == Pack(msg, TRUE)

\* One decoding step: the value (or the exception) and the index after it
Got(x, nxt) == [val |-> x, nxt |-> nxt]
Need(b, i, k, then) == IF i + k - 1 > Len(b) THEN Got(Raise("OutOfData"), i) ELSE then

U16(b, i) == b[i] * 256 + b[i + 1]
U32(b, i) == ((b[i] * 256 + b[i + 1]) * 256 + b[i + 2]) * 256 + b[i + 3]

\* a str payload is decoded as UTF-8 (raw=False); every str this program
\* writes is ASCII, and a byte above 127 is taken to be undecodable
UnpackStr(b, i, len) ==
    Need(b, i, len,
         IF \E k \in i..(i + len - 1) : b[k] > 127
         THEN Got(Raise("UnicodeDecodeError"), i)
         ELSE Got(PyStr(SubSeq(b, i, i + len - 1)), i + len))

UnpackBin(b, i, len) ==
    Need(b, i, len, Got(PyBytes(SubSeq(b, i, i + len - 1)), i + len))

\* Unpacker(use_list=False, strict_map_key=True).unpack: the first object of
\* the stream; what follows it is not read
RECURSIVE Unpack(_, _)
RECURSIVE UnpackMap(_, _, _, _)
Unpack(b, i) ==
    IF i > Len(b) THEN Got(Raise("OutOfData"), i)
    ELSE LET c == b[i] IN
      CASE c <= 127               -> Got(PyInt(c), i + 1)
        [] 128 <= c /\ c <= 143   -> UnpackMap(b, i + 1, c - 128, <<>>)
        [] 160 <= c /\ c <= 191   -> UnpackStr(b, i + 1, c - 160)
        [] c = 192                -> Got(PyNone, i + 1)
        [] c = 196 -> Need(b, i + 1, 1, UnpackBin(b, i + 2, b[i + 1]))
        [] c = 197 -> Need(b, i + 1, 2, UnpackBin(b, i + 3, U16(b, i + 1)))
        [] c = 203 -> Need(b, i + 1, 8,
                           Got(PyFloat(Reverse(SubSeq(b, i + 1, i + 8))), i + 9))
        [] c = 204 -> Need(b, i + 1, 1, Got(PyInt(b[i + 1]), i + 2))
        [] c = 205 -> Need(b, i + 1, 2, Got(PyInt(U16(b, i + 1)), i + 3))
        [] c = 206 -> Need(b, i + 1, 4, Got(PyInt(U32(b, i + 1)), i + 5))
        [] c = 208 -> Need(b, i + 1, 1,
                           Got(PyInt(IF b[i + 1] > 127 THEN b[i + 1] - 256
                                     ELSE b[i + 1]), i + 2))
        [] c = 209 -> Need(b, i + 1, 2,
                           Got(PyInt(IF b[i + 1] > 127 THEN U16(b, i + 1) - 65536
                                     ELSE U16(b, i + 1)), i + 3))
        [] c = 210 -> Need(b, i + 1, 4,
                           Got(PyInt(IF b[i + 1] > 127
                                     THEN (U32(<<b[i + 1] - 128, b[i + 2], b[i + 3],
                                                 b[i + 4]>>, 1) - 2147483647) - 1
                                     ELSE U32(b, i + 1)), i + 5))
        [] c = 217 -> Need(b, i + 1, 1, UnpackStr(b, i + 2, b[i + 1]))
        [] c = 218 -> Need(b, i + 1, 2, UnpackStr(b, i + 3, U16(b, i + 1)))
        [] c = 222 -> Need(b, i + 1, 2, UnpackMap(b, i + 3, U16(b, i + 1), <<>>))
        [] c >= 224               -> Got(PyInt(c - 256), i + 1)
        [] OTHER                  -> Got(Raise("FormatError"), i)
UnpackMap(b, i, n, acc) ==
    IF n = 0 THEN Got(PyDict(acc), i)
    ELSE LET k == Unpack(b, i) IN
         IF Raised(k.val) THEN k
         ELSE IF k.val.t \notin {"str", "bytes"} THEN Got(Raise("ValueError"), i)
         ELSE LET x == Unpack(b, k.nxt) IN
              IF Raised(x.val) THEN x
              ELSE UnpackMap(b, x.nxt, n - 1, Append(acc, <<k.val.v, x.val>>))

unpack_msg(msg) == Unpack(msg, 1).val

-----------------------------------------------------------------------------
(* The codec as _dump and load use it *)

\* _dump's comprehension: every ndarray value replaced by its bytes
DumpMsg(self) ==
    LET d == asdict(self)
    IN  PyDict([j \in 1..Len(d) |->
                   <<d[j][1], IF isinstance(d[j][2], "ndarray")
                              THEN array_to_bytes(d[j][2]) ELSE d[j][2]>>])

\* what _dump writes
Encode(self) == pack_msg(DumpMsg(self))

\* load's comprehension and constructor call, on the unpacked message
FromMsg(msg) ==
    IF Raised(msg) THEN msg
    ELSE IF ~isinstance(msg, "dict") THEN Raise("AttributeError")
    ELSE LET kw == [j \in 1..Len(msg.v) |->
                       <<msg.v[j][1], IF isinstance(msg.v[j][2], "bytes")
                                      THEN frombuffer(msg.v[j][2]) ELSE msg.v[j][2]>>]
         IN  IF \E j \in 1..Len(kw) : Raised(kw[j][2])
             THEN (kw[CHOOSE j \in 1..Len(kw) : Raised(kw[j][2])][2])
             ELSE Species(kw)

\* what load makes of a file's content
Decode(content) == FromMsg(unpack_msg(content))

-----------------------------------------------------------------------------
(* Sample data *)

F_0_01 == <<123, 20, 174, 71, 225, 122, 132, 63>>     \* 0.01
F_0_1  == <<154, 153, 153, 153, 153, 153, 185, 63>>   \* 0.1
F_0_2  == <<154, 153, 153, 153, 153, 153, 201, 63>>   \* 0.2
F_0_5  == <<0, 0, 0, 0, 0, 0, 224, 63>>               \* 0.5
F_1_0  == <<0, 0, 0, 0, 0, 0, 240, 63>>               \* 1.0
F_2_0  == <<0, 0, 0, 0, 0, 0, 0, 64>>                 \* 2.0
F_5_0  == <<0, 0, 0, 0, 0, 0, 20, 64>>                \* 5.0
F_m0_5 == <<0, 0, 0, 0, 0, 0, 224, 191>>              \* -0.5
F_0_59 == <<225, 122, 20, 174, 71, 225, 226, 63>>     \* 0.59
F_2_27 == <<41, 92, 143, 194, 245, 40, 2, 64>>        \* 2.27
F_1837 == <<123, 20, 174, 71, 225, 181, 156, 64>>     \* 1837.47

S_hci     == <<104, 99, 105>>                 \* "hci"
S_Slater  == <<83, 108, 97, 116, 101, 114>>   \* "Slater"
S_d       == <<100>>                          \* "d"
S_basis   == <<99, 99, 45, 112, 118, 100, 122>>   \* "cc-pvdz"
S_cordero == <<99, 111, 114, 100, 101, 114, 111>> \* "cordero"
S_bragg   == <<98, 114, 97, 103, 103>>            \* "bragg"
S_bondi   == <<98, 111, 110, 100, 105>>           \* "bondi"

DEFAULT_DATASET == S_hci

\* get_element_data(elem): the radii dictionaries, keyed by the last word of
\* the column name, and the mass, from the row of element_number(elem); an
\* empty cell gives None.  The cell values stand for those of elements.csv.
get_element_data(elem) ==
    LET z == element_number(elem) IN
    [cov_radii |-> PyDict(<< <<S_cordero, PyFloat(F_0_59)>>, <<S_bragg, PyNone>> >>),
     vdw_radii |-> PyDict(<< <<S_bondi, PyFloat(F_2_27)>> >>),
     mass      |-> PyFloat(F_1837)]

RS4   == <<F_0_1, F_0_5, F_1_0, F_2_0>>      \* radial grid [0.1, 0.5, 1.0, 2.0]
DENS4 == <<F_5_0, F_1_0, F_0_2, F_0_01>>     \* density [5.0, 1.0, 0.2, 0.01]
LONG  == [k \in 1..32 |-> F_0_5]             \* 256 bytes: beyond the bin8 range

\* a Species with the given identity and optional fields `opt` (name -> value)
MakeSpecies(dataset, elem, natom, nelec, nspin, nexc, opt) ==
    LET ed == get_element_data(elem) IN
    Species(<< <<FIELDS[1].key, PyStr(dataset)>>, <<FIELDS[2].key, elem>>,
               <<FIELDS[3].key, PyInt(natom)>>,   <<FIELDS[4].key, PyStr(S_basis)>>,
               <<FIELDS[5].key, PyInt(nelec)>>,   <<FIELDS[6].key, PyInt(nspin)>>,
               <<FIELDS[7].key, PyInt(nexc)>>,    <<FIELDS[8].key, ed.cov_radii>>,
               <<FIELDS[9].key, ed.vdw_radii>>,   <<FIELDS[10].key, ed.mass>> >>
            \o opt)

KeyOf(name) == FIELDS[CHOOSE j \in 1..NFIELDS : FIELDS[j].name = name].key

-----------------------------------------------------------------------------
(* Codec: a record is populated field by field, then encoded and decoded *)

MaxPopulated == 2

ScalarFields == {"energy", "ip", "mu", "eta"}
ArrayFields  == FieldNames \ ({ FIELDS[j].name : j \in 1..NREQUIRED } \cup ScalarFields)

ScalarValues == {PyFloat(F_m0_5), PyInt(0)}
ArrayValues  == {PyArray(<<>>), PyArray(RS4)}

ValuesOf(f) ==
    IF f \in ScalarFields THEN ScalarValues
    ELSE IF f = "mo_energies" THEN ArrayValues \cup {PyArray(LONG)}
    ELSE ArrayValues

CodecBases ==
    { MakeSpecies(S_hci, PyStr(<<72>>), 1, 1, 1, 0, <<>>),
      MakeSpecies(S_Slater, PyStr(<<72, 101>>), 2, 3, 200, 1, <<>>) }

Populated(r) == { f \in ScalarFields \cup ArrayFields : r.v[f] # PyNone }

CodecInit == cin \in CodecBases /\ cout = PyNone

CodecSet ==
    /\ Cardinality(Populated(cin)) < MaxPopulated
    /\ \E f \in ScalarFields \cup ArrayFields :
         /\ cin.v[f] = PyNone
         /\ \E x \in ValuesOf(f) :
              cin' = [cin EXCEPT !.v[f] = x]
    /\ cout' = PyNone
    /\ UNCHANGED <<storeVars, pathVars, elemVars, splineVars>>

CodecRoundTrip ==
    /\ cout' = Decode(Encode(cin))
    /\ cin' = cin
    /\ UNCHANGED <<storeVars, pathVars, elemVars, splineVars>>

CodecNext == CodecSet \/ CodecRoundTrip

\* the variables a specification does not use keep these values
StoreIdle  == dirs = {} /\ files = <<>> /\ pc = <<>> /\ call = <<>> /\ rec = <<>> /\ last = <<>>
CodecIdle  == cin = PyNone /\ cout = PyNone
PathIdle   == pk = <<>> /\ pp = <<>>
ElemIdle   == ein = PyNone /\ eout = <<>>
SplineIdle == sarg = <<>> /\ sout = PyNone

InitCodec == CodecInit /\ StoreIdle /\ PathIdle /\ ElemIdle /\ SplineIdle

SpecCodec == InitCodec /\ [][CodecNext]_vars

\* C1: decoding the encoding of a record gives a Species equal to it on every
\* persisted field (scalars, radius mappings, None for the absent ones, arrays
\* element for element), with the same derived charge and mult.
C1_RoundTrip ==
    cout # PyNone =>
        /\ cout.t = "Species"
        /\ \A f \in FieldNames : cout.v[f] = cin.v[f]
        /\ cout.charge = cin.charge /\ cout.mult = cin.mult

C1_Witness ==
    /\ cout # PyNone
    /\ cout.t = "Species"
    /\ cout.v["rs"] = PyArray(RS4)
    /\ cout.v["energy"] = PyFloat(F_m0_5)
    /\ cout.v["dens_tot"] = PyNone

-----------------------------------------------------------------------------
(* Element table: the two conversions applied to one argument *)

MaxZ == 125

S_Xx == <<88, 120>>   \* "Xx"
S_h  == <<104>>       \* "h"
S_HE == <<72, 69>>    \* "HE"

ValidSymbols == { ELEMENTS[i] : i \in 2..Len(ELEMENTS) }

ElemInputs ==
    { PyInt(n) : n \in -MaxZ..MaxZ }
      \cup { PyStr(x) : x \in ValidSymbols \cup {ELEMENTS[1], S_Xx, S_h, S_HE, <<>>} }

ElemInit == ein \in ElemInputs /\ eout = <<>>

ElemQuery ==
    /\ eout = <<>>
    /\ eout' = <<element_symbol(ein), element_number(ein)>>
    /\ ein' = ein
    /\ UNCHANGED <<storeVars, codecVars, pathVars, splineVars>>

InitElem == ElemInit /\ StoreIdle /\ CodecIdle /\ PathIdle /\ SplineIdle

SpecElem == InitElem /\ [][ElemQuery]_vars

\* C5: both conversions raise on every int outside 0..118 and on every str
\* that is not one of the 118 symbols, and 0 is given no valid symbol.
C5_InvalidRejected ==
    eout # <<>> =>
        /\ (ein.t = "int" /\ (ein.v < 0 \/ ein.v > 118))
              => (Raised(eout[1]) /\ Raised(eout[2]))
        /\ (ein.t = "str" /\ ein.v \notin ValidSymbols)
              => (Raised(eout[1]) /\ Raised(eout[2]))
        /\ (ein.t = "int" /\ ein.v = 0)
              => (Raised(eout[1]) \/ eout[1].v \notin ValidSymbols)

-----------------------------------------------------------------------------
(* Path resolution: two keys resolved against one base directory *)

S_HCI == <<72, 67, 73>>   \* "HCI"

PathElems    == {PyStr(<<72>>), PyStr(<<72, 101>>), PyInt(1)}
PathCharges  == {-1, 1, 11}
PathMults    == {2, 12}
PathNexcs    == {0, 1}
PathDatasets == {S_hci, S_HCI, S_Slater}

PathKeys ==
    [elem : PathElems, charge : PathCharges, mult : PathMults, nexc : PathNexcs,
     dataset : PathDatasets]

Resolve(k, datapath) ==
    Species_msgfile(k.elem, PyInt(k.charge), PyInt(k.mult), PyInt(k.nexc),
                    k.dataset, datapath)

PathInit == pk \in PathKeys \X PathKeys /\ pp = <<>>

PathResolve ==
    /\ pp = <<>>
    /\ pp' = <<Resolve(pk[1], S_d), Resolve(pk[2], S_d)>>
    /\ pk' = pk
    /\ UNCHANGED <<storeVars, codecVars, elemVars, splineVars>>

InitPath == PathInit /\ StoreIdle /\ CodecIdle /\ ElemIdle /\ SplineIdle

SpecPath == InitPath /\ [][PathResolve]_vars

\* C3 as stated: two keys resolve to the same path exactly when they are the
\* same key (any difference in element, charge, multiplicity, excitation or
\* dataset changes the path).
C3_Injective ==
    pp # <<>> => ((pp[1] = pp[2]) <=> (pk[1] = pk[2]))

\* C3 amended: two keys resolve to the same path exactly when they agree on
\* element, charge, multiplicity, excitation and the lower-cased dataset name.
C3_InjectiveUpToCase ==
    pp # <<>> =>
        ((pp[1] = pp[2]) <=>
            /\ pk[1].elem = pk[2].elem
            /\ pk[1].charge = pk[2].charge
            /\ pk[1].mult = pk[2].mult
            /\ pk[1].nexc = pk[2].nexc
            /\ lower(pk[1].dataset) = lower(pk[2].dataset))

C3_Witness ==
    /\ pp # <<>>
    /\ pk[1].charge = 1 /\ pk[1].mult = 12
    /\ pk[2].charge = 11 /\ pk[2].mult = 2
    /\ pk[1].elem = pk[2].elem /\ pk[1].nexc = pk[2].nexc
    /\ pk[1].dataset = S_HCI /\ pk[2].dataset = S_hci
    /\ pp[1] # pp[2]

-----------------------------------------------------------------------------
(* Spline methods: the outcome of one call on a record *)

\* interp1d(x, y, kind="cubic", fill_value="extrapolate") and its evaluation:
\* the interpolated values are not computed here, only whether the fit is
\* possible (a grid, as many samples as grid points, enough of them for a
\* cubic) and whether it was made on log(y)
cubic_interp(x, y, log) ==
    IF ~isinstance(x, "ndarray") \/ Len(x.v) # Len(y.v) \/ Len(y.v) < 4
    THEN Raise("interp1d")
    ELSE [t |-> "interpolated", v |-> log]

\* the body shared by the four methods, on the method's own spins dictionary
\* (a sequence of <<selector, array>> pairs)
SplineBody(self, spins, spin, index, log) ==
    IF index = PyNone
    THEN IF ~DictHas(spins, spin) THEN Raise("KeyError")
         ELSE IF DictGet(spins, spin) # PyNone
              THEN cubic_interp(self.v["rs"], DictGet(spins, spin), log)
              ELSE Raise("ValueError")
    ELSE Raise("NotImplementedError")

\* a method that looks at the array and never at index
SplineBodyNoIndex(self, spins, spin, index, log) ==
    IF ~DictHas(spins, spin) THEN Raise("KeyError")
    ELSE IF DictGet(spins, spin) # PyNone
         THEN cubic_interp(self.v["rs"], DictGet(spins, spin), log)
         ELSE Raise("ValueError")

Spins(self, up, dn, tot, mag) ==
    << <<"a", self.v[up]>>, <<"b", self.v[dn]>>, <<"ab", self.v[tot]>>,
       <<"m", self.v[mag]>> >>

Log(log, default) == IF log = "default" THEN default ELSE log = "True"

dens_spline(self, points, spin, index, log) ==
    SplineBody(self, Spins(self, "dens_up", "dens_dn", "dens_tot", "dens_mag"),
               spin, index, Log(log, FALSE))

d_dens_spline(self, points, spin, index, log) ==
    SplineBody(self, Spins(self, "d_dens_up", "d_dens_dn", "d_dens_tot", "d_dens_mag"),
               spin, index, Log(log, FALSE))

ked_spline_noindex(self, points, spin, index, log) ==
    SplineBodyNoIndex(self, Spins(self, "ked_up", "ked_dn", "ked_tot", "ked_mag"),
                      spin, index, Log(log, TRUE))

ked_spline(self, points, spin, index, log) ==
    SplineBody(self, Spins(self, "ked_up", "ked_dn", "ked_tot", "ked_mag"),
               spin, index, Log(log, TRUE))

lapl_spline(self, points, spin, index, log) ==
    SplineBody(self, Spins(self, "lapl_up", "lapl_dn", "lapl_tot", "lapl_mag"),
               spin, index, Log(log, FALSE))

SplineMethods == {"dens_spline", "d_dens_spline", "ked_spline", "lapl_spline"}
SplineSpins   == {"a", "b", "ab", "m", "x"}
SplineIndexes == {PyNone, [t |-> "list", v |-> <<>>], [t |-> "list", v |-> <<1, 2>>]}
SplineLogs    == {"default", "True", "False"}

H_hci(opt) == MakeSpecies(S_hci, PyStr(<<72>>), 1, 1, 1, 0, opt)

SplineRecords ==
    { H_hci(<<>>),
      H_hci(<< <<KeyOf("rs"), PyArray(RS4)>>, <<KeyOf("dens_tot"), PyArray(DENS4)>> >>),
      H_hci(<< <<KeyOf("dens_tot"), PyArray(DENS4)>>, <<KeyOf("ked_dn"), PyArray(DENS4)>> >>),
      H_hci(<< <<KeyOf("rs"), PyArray(RS4)>>,
               <<KeyOf("dens_up"), PyArray(DENS4)>>, <<KeyOf("dens_dn"), PyArray(<<F_1_0>>)>>,
               <<KeyOf("dens_tot"), PyArray(DENS4)>>, <<KeyOf("dens_mag"), PyArray(DENS4)>>,
               <<KeyOf("d_dens_tot"), PyArray(DENS4)>>, <<KeyOf("lapl_up"), PyArray(DENS4)>>,
               <<KeyOf("ked_tot"), PyArray(DENS4)>>, <<KeyOf("ked_mag"), PyArray(DENS4)>> >>) }

SplineCalls ==
    [self : SplineRecords, method : SplineMethods, spin : SplineSpins,
     index : SplineIndexes, log : SplineLogs]

SplineInit == sarg \in SplineCalls /\ sout = PyNone

SplineCall ==
    /\ sout = PyNone
    /\ sout' = (CASE sarg.method = "dens_spline" ->
                       dens_spline(sarg.self, <<F_0_5>>, sarg.spin, sarg.index, sarg.log)
                  [] sarg.method = "d_dens_spline" ->
                       d_dens_spline(sarg.self, <<F_0_5>>, sarg.spin, sarg.index, sarg.log)
                  [] sarg.method = "ked_spline" ->
                       ked_spline(sarg.self, <<F_0_5>>, sarg.spin, sarg.index, sarg.log)
                  [] sarg.method = "lapl_spline" ->
                       lapl_spline(sarg.self, <<F_0_5>>, sarg.spin, sarg.index, sarg.log))
    /\ sarg' = sarg
    /\ UNCHANGED <<storeVars, codecVars, pathVars, elemVars>>

InitSpline == SplineInit /\ StoreIdle /\ CodecIdle /\ PathIdle /\ ElemIdle

SpecSpline == InitSpline /\ [][SplineCall]_vars

\* the field a channel family and a spin selector name
ChannelTable ==
    [dens_spline   |-> [a |-> "dens_up",   b |-> "dens_dn",   ab |-> "dens_tot",   m |-> "dens_mag"],
     d_dens_spline |-> [a |-> "d_dens_up", b |-> "d_dens_dn", ab |-> "d_dens_tot", m |-> "d_dens_mag"],
     ked_spline    |-> [a |-> "ked_up",    b |-> "ked_dn",    ab |-> "ked_tot",    m |-> "ked_mag"],
     lapl_spline   |-> [a |-> "lapl_up",   b |-> "lapl_dn",   ab |-> "lapl_tot",   m |-> "lapl_mag"]]
SelectedField(method, spin) == ChannelTable[method][spin]

\* C8: a call with an orbital-index argument raises not-supported whatever
\* the spin selector and the record hold, and returns no values; a call
\* without one whose selected array is absent raises unavailable-channel,
\* which is another error than not-supported.
C8_SplineErrors ==
    sout # PyNone =>
        /\ sarg.index # PyNone => sout = Raise("NotImplementedError")
        /\ (sarg.index = PyNone /\ sarg.spin \in {"a", "b", "ab", "m"}
              /\ sarg.self.v[SelectedField(sarg.method, sarg.spin)] = PyNone)
             => (sout = Raise("ValueError") /\ sout # Raise("NotImplementedError"))

C8_Witness ==
    /\ sout = Raise("NotImplementedError")
    /\ sarg.method = "ked_spline"
    /\ sarg.spin = "ab"
    /\ sarg.self.v["ked_tot"] # PyNone /\ sarg.self.v["rs"] # PyNone

-----------------------------------------------------------------------------
(* The store: callers running load and compile against one file system *)

Procs == {1, 2}

StoreElems    == {PyStr(<<72>>), PyInt(1)}
StoreCharges  == {0}
StoreMults    == {1, 2}
StoreNexcs    == {0}
StoreDatasets == {S_hci, S_Slater}
StorePaths    == {S_d}

\* the keys callers use: hydrogen by symbol in either multiplicity in the
\* default dataset, and the doublet also by atomic number and in the other dataset
StoreKeys ==
    { k \in [elem : StoreElems, charge : StoreCharges, mult : StoreMults,
              nexc : StoreNexcs, dataset : StoreDatasets, datapath : StorePaths] :
        /\ k.dataset # DEFAULT_DATASET => k.elem = PyStr(<<72>>)
        /\ k.mult # 2 => (k.elem = PyStr(<<72>>) /\ k.dataset = DEFAULT_DATASET) }

NoCall == [elem |-> PyNone, charge |-> 0, mult |-> 0, nexc |-> 0,
           dataset |-> <<>>, datapath |-> <<>>]

\* the dataset names for which a module atomdb.datasets.<name> exists
GENERATORS == {S_hci}

\* what a generator may put in the optional fields of the record it returns
GeneratorOutputs ==
    { <<>>,
      << <<KeyOf("energy"), PyFloat(F_m0_5)>>, <<KeyOf("rs"), PyArray(RS4)>>,
         <<KeyOf("dens_tot"), PyArray(DENS4)>> >> }

\* atomdb.datasets.<dataset>.run: the populated record of the species the key
\* names (element symbol, atom and electron counts, spin excess), the
\* optional fields being the generator's business
run(elem, charge, mult, nexc, dataset, datapath, opt) ==
    LET natom == element_number(element_symbol(elem)).v
    IN  MakeSpecies(dataset, element_symbol(elem), natom, natom - charge, mult - 1,
                    nexc, opt)

\* the path with the charge and the multiplicity in each other's place
DumpFileSwapped(self, datapath) ==
    Species_msgfile(self.v["elem"], self.mult, self.charge, self.v["nexc"],
                    self.v["dataset"].v, datapath)

\* the path _dump computes, from the record's own attributes
DumpFile(self, datapath) ==
    Species_msgfile(self.v["elem"], self.charge, self.mult, self.v["nexc"],
                    self.v["dataset"].v, datapath)

\* a write that lands at the end of the file
WriteAtEnd(old, data) == old \o data

\* f.write(data) on a file just opened: the bytes land at offset 0 and what
\* the file holds beyond them stays
WriteAt0(old, data) == data \o SubSeq(old, Len(data) + 1, Len(old))

SetFile(fs, fn, content) ==
    [q \in DOMAIN fs \cup {fn} |-> IF q = fn THEN content ELSE fs[q]]

\* load, as a function of the file system
load(fs, elem, charge, mult, nexc, dataset, datapath) ==
    LET fn == Species_msgfile(elem, PyInt(charge), PyInt(mult), PyInt(nexc),
                              dataset, datapath)
    IN  IF fn \notin DOMAIN fs THEN Raise("FileNotFoundError") ELSE Decode(fs[fn])

LoadKey(fs, k) == load(fs, k.elem, k.charge, k.mult, k.nexc, k.dataset, k.datapath)

\* the variables of the other specifications
otherVars == <<codecVars, pathVars, elemVars, splineVars>>

StoreInit ==
    /\ dirs = {}
    /\ files = <<>>
    /\ last = <<>>
    /\ pc = [p \in Procs |-> "idle"]
    /\ call = [p \in Procs |-> NoCall]
    /\ rec = [p \in Procs |-> PyNone]

\* compile(elem, charge, mult, nexc, dataset, datapath) is called
Compile(p) ==
    /\ pc[p] = "idle"
    /\ \E k \in StoreKeys : call' = [call EXCEPT ![p] = k]
    /\ pc' = [pc EXCEPT ![p] = "c_makedirs"]
    /\ UNCHANGED <<dirs, files, last, rec, otherVars>>

\* the two makedirs(..., exist_ok=True)
CompileMakedirs(p) ==
    /\ pc[p] = "c_makedirs"
    /\ dirs' = dirs \cup Ancestors(join(call[p].datapath, call[p].dataset \o S_db))
                    \cup Ancestors(join(call[p].datapath, call[p].dataset \o S_raw))
    /\ pc' = [pc EXCEPT ![p] = "c_import"]
    /\ UNCHANGED <<files, last, call, rec, otherVars>>

\* an import step that already opens the db file of the key for writing
CompileImportOpening(p) ==
    /\ pc[p] = "c_import"
    /\ files' = SetFile(files, Species_msgfile(call[p].elem, PyInt(call[p].charge),
                             PyInt(call[p].mult), PyInt(call[p].nexc),
                             call[p].dataset, call[p].datapath), <<>>)
    /\ IF call[p].dataset \in GENERATORS
       THEN /\ pc' = [pc EXCEPT ![p] = "c_run"]
            /\ rec' = rec
       ELSE /\ pc' = [pc EXCEPT ![p] = "raised"]
            /\ rec' = [rec EXCEPT ![p] = Raise("ModuleNotFoundError")]
    /\ UNCHANGED <<dirs, last, call, otherVars>>

\* import_module(f"atomdb.datasets.{dataset}")
CompileImport(p) ==
    /\ pc[p] = "c_import"
    /\ IF call[p].dataset \in GENERATORS
       THEN /\ pc' = [pc EXCEPT ![p] = "c_run"]
            /\ rec' = rec
       ELSE /\ pc' = [pc EXCEPT ![p] = "raised"]
            /\ rec' = [rec EXCEPT ![p] = Raise("ModuleNotFoundError")]
    /\ UNCHANGED <<dirs, files, last, call, otherVars>>

\* submodule.run(...): a record, or the generator's own failure
CompileRun(p) ==
    /\ pc[p] = "c_run"
    /\ \/ \E opt \in GeneratorOutputs :
            /\ rec' = [rec EXCEPT ![p] =
                          run(call[p].elem, call[p].charge, call[p].mult, call[p].nexc,
                              call[p].dataset, call[p].datapath, opt)]
            /\ pc' = [pc EXCEPT ![p] = "c_dump"]
       \/ /\ rec' = [rec EXCEPT ![p] = Raise("GeneratorError")]
          /\ pc' = [pc EXCEPT ![p] = "raised"]
    /\ UNCHANGED <<dirs, files, last, call, otherVars>>

\* _dump: open(fn, "wb") creates the file or truncates it
DumpOpen(p) ==
    /\ pc[p] = "c_dump"
    /\ LET fn == DumpFile(rec[p], call[p].datapath) IN
       IF dirname(fn) \in dirs
       THEN /\ files' = SetFile(files, fn, <<>>)
            /\ pc' = [pc EXCEPT ![p] = "c_write"]
            /\ rec' = rec
       ELSE /\ files' = files
            /\ pc' = [pc EXCEPT ![p] = "raised"]
            /\ rec' = [rec EXCEPT ![p] = Raise("FileNotFoundError")]
    /\ UNCHANGED <<dirs, last, call, otherVars>>

\* _dump: f.write(pack_msg(msg)) and the close; compile returns
DumpWrite(p) ==
    /\ pc[p] = "c_write"
    /\ LET fn == DumpFile(rec[p], call[p].datapath) IN
       /\ files' = SetFile(files, fn, WriteAt0(files[fn], Encode(rec[p])))
       /\ last' = SetFile(last, fn, rec[p])
    /\ pc' = [pc EXCEPT ![p] = "done"]
    /\ UNCHANGED <<dirs, call, rec, otherVars>>

\* load(elem, charge, mult, nexc, dataset, datapath): the file is opened,
\* read and decoded
Load(p) ==
    /\ pc[p] = "idle"
    /\ \E k \in StoreKeys :
         /\ call' = [call EXCEPT ![p] = k]
         /\ rec' = [rec EXCEPT ![p] = LoadKey(files, k)]
    /\ pc' = [pc EXCEPT ![p] = "loaded"]
    /\ UNCHANGED <<dirs, files, last, otherVars>>

\* the caller has its result (or its exception) and may call again
Return(p) ==
    /\ pc[p] \in {"done", "raised", "loaded"}
    /\ pc' = [pc EXCEPT ![p] = "idle"]
    /\ call' = [call EXCEPT ![p] = NoCall]
    /\ rec' = [rec EXCEPT ![p] = PyNone]
    /\ UNCHANGED <<dirs, files, last, otherVars>>

Init == StoreInit /\ CodecIdle /\ PathIdle /\ ElemIdle /\ SplineIdle

Next ==
    \E p \in Procs :
        \/ Compile(p) \/ CompileMakedirs(p) \/ CompileImport(p) \/ CompileRun(p)
        \/ DumpOpen(p) \/ DumpWrite(p) \/ Load(p) \/ Return(p)

Spec == Init /\ [][Next]_vars

-----------------------------------------------------------------------------
(* Properties of the store *)

IsPrefix(a, b) == Len(a) <= Len(b) /\ SubSeq(b, 1, Len(a)) = a

\* the path of a key, as load resolves it
KeyFile(k) ==
    Species_msgfile(k.elem, PyInt(k.charge), PyInt(k.mult), PyInt(k.nexc),
                    k.dataset, k.datapath)

\* no compile is under way
AllFinished == \A p \in Procs : pc[p] \in {"idle", "done", "raised", "loaded"}

\* no caller holds a db file it has opened and not yet written
NoneOpen == \A p \in Procs : pc[p] # "c_write"

\* C2: when compile(key) has returned (and nothing was written over its
\* record since), a file exists at the path resolved from the arguments of
\* the call, and load with those arguments returns the generator's record,
\* whose charge and mult are the arguments'.
C2_CompiledAtKeyPath ==
    \A p \in Procs :
        (/\ pc[p] = "done"
         /\ NoneOpen
         /\ last[DumpFile(rec[p], call[p].datapath)] = rec[p])
        => /\ KeyFile(call[p]) \in DOMAIN files
           /\ LoadKey(files, call[p]) = rec[p]
           /\ rec[p].charge = PyInt(call[p].charge)
           /\ rec[p].mult = PyInt(call[p].mult)

\* C4: whenever no file is open for writing, a key whose element is given by
\* atomic number loads what the key with the element's symbol loads (the
\* element is normalised before the path is formatted).
C4_NumberLoadsAsSymbol ==
    NoneOpen =>
        \A k \in StoreKeys :
            k.elem.t = "int" =>
                LoadKey(files, k) = LoadKey(files, [k EXCEPT !.elem = element_symbol(k.elem)])

GeneratorFailures == {Raise("ModuleNotFoundError"), Raise("GeneratorError")}
BeforeDump(p) == pc[p] \in {"c_makedirs", "c_import", "c_run"}

\* C6: every step of a compile up to the return of the generator leaves every
\* file as it is, and a compile fails in the generator lookup or in the
\* generation only by such a step: a compile that failed there wrote nothing.
C6_FailedCompileWritesNothing ==
    [][\A p \in Procs :
          /\ (BeforeDump(p) /\ pc'[p] # pc[p]) => files' = files
          /\ (pc[p] # "raised" /\ pc'[p] = "raised" /\ rec'[p] \in GeneratorFailures)
                => (BeforeDump(p) /\ files' = files)]_vars

C6_Witness ==
    \E p \in Procs :
        /\ pc[p] = "raised"
        /\ rec[p] = Raise("GeneratorError")
        /\ KeyFile(call[p]) \in DOMAIN files
        /\ KeyFile(call[p]) \in DOMAIN last
        /\ files[KeyFile(call[p])] = Encode(last[KeyFile(call[p])])
        /\ LoadKey(files, call[p]) = last[KeyFile(call[p])]

\* C7 as stated: once every compile has finished, each file holds exactly the
\* encoding of the record written to it last.
C7_ExactlyLastEncoding ==
    AllFinished => \A fn \in DOMAIN files : files[fn] = Encode(last[fn])

\* C7 amended: once every compile has finished, each file starts with the
\* complete encoding of the record written to it last (bytes of a longer
\* record written earlier may follow), and decoding the file gives that record.
C7_LastWriterWins ==
    AllFinished =>
        \A fn \in DOMAIN files :
            /\ IsPrefix(Encode(last[fn]), files[fn])
            /\ Decode(files[fn]) = last[fn]

C7_Witness ==
    /\ AllFinished
    /\ \E fn \in DOMAIN files :
         /\ files[fn] # Encode(last[fn])
         /\ Decode(files[fn]) = last[fn]

\* C9: once compile has created its directories, the directory of the db
\* path resolved for the key exists.
C9_DbDirectoryExists ==
    \A p \in Procs :
        pc[p] \in {"c_import", "c_run", "c_dump"} => dirname(KeyFile(call[p])) \in dirs

\* C10: whenever no file is open for writing, every db file holds a map of
\* the dataclass fields only (no charge, no mult) that decodes to a record
\* whose element, natom - nelec, nspin + 1, excitation and dataset name
\* format to the file's own path; and every load that succeeds returns a
\* record whose charge and mult are the requested ones.
C10_StoredRecordMatchesPath ==
    /\ NoneOpen =>
         \A fn \in DOMAIN files :
             LET msg == unpack_msg(files[fn])
                 r   == FromMsg(msg)
             IN  /\ msg.t = "dict"
                 /\ Len(msg.v) = NFIELDS
                 /\ \A j \in 1..NFIELDS : msg.v[j][1] = FIELDS[j].key
                 /\ r.t = "Species"
                 /\ \E dp \in StorePaths :
                      fn = Species_msgfile(r.v["elem"],
                                           PyInt(r.v["natom"].v - r.v["nelec"].v),
                                           PyInt(r.v["nspin"].v + 1),
                                           r.v["nexc"], r.v["dataset"].v, dp)
    /\ \A p \in Procs :
         (pc[p] = "loaded" /\ ~Raised(rec[p]))
            => /\ rec[p].charge = PyInt(call[p].charge)
               /\ rec[p].mult = PyInt(call[p].mult)

C10_Witness ==
    /\ NoneOpen
    /\ Cardinality(DOMAIN files) = 2
    /\ \E p \in Procs :
         /\ pc[p] = "loaded"
         /\ rec[p].t = "Species"
         /\ rec[p].mult = PyInt(1)
         /\ rec[p].v["rs"] = PyArray(RS4)

=============================================================================
